---- MODULE Spec2Model ----
(***************************************************************************)
(* Model of the interactive archive browser of blob-cli (`blob open`):     *)
(* the directory synthesizer (internal/archive), the file tree component   *)
(* (internal/tui/components/filetree), the preview component               *)
(* (internal/tui/components/preview), the copy dialog, the status bar and  *)
(* the Bubble Tea root model (internal/tui/open).                          *)
(*                                                                         *)
(* Strings are sequences of one-character strings, so that prefix tests,   *)
(* splitting at "/" and byte-wise ordering are computed as the code        *)
(* computes them.  The Bubble Tea runtime is the variable `model` (the     *)
(* value the runtime holds and replaces by the result of every Update)     *)
(* plus the bag `tasks` of commands that are running and have not yet      *)
(* delivered their message.                                                *)
(*                                                                         *)
(* Spec is the whole program: every key, every message.  SpecTree is the   *)
(* tree in use on a deeper archive: resizes, the navigation keys and the   *)
(* messages they lead to.                                                  *)
(***************************************************************************)
EXTENDS Integers, Sequences, FiniteSets, Bags, TLC

----------------------------------------------------------------------------
(* Bounds of the model                                                     *)

\* largest number of visible tree lines a window size of the model gives
MaxVisible == 2
\* largest number of commands that may be running at the same time
MaxTasks == 2
\* a character is typed into the copy dialog only while its text is shorter
\* than this; the text it opens with can always be deleted
MaxInput == 0
\* largest number of entries of an index that is listed on its own
MaxEntries == 3
\* largest depth limit BuildTree is called with
MaxDepth == 2
\* largest length of a path that is normalized on its own
MaxPath == 5
\* largest length of the contents classified byte by byte
MaxShort == 3

----------------------------------------------------------------------------
(* Strings                                                                 *)

S0 == << >>

\* byte value of the characters the model uses (Go compares strings bytewise)
CharCode(c) ==
  CASE c = "." -> 46
    [] c = "/" -> 47
    [] c = "a" -> 97
    [] c = "b" -> 98
    [] c = "c" -> 99
    [] c = "d" -> 100
    [] c = "g" -> 103
    [] c = "m" -> 109
    [] c = "o" -> 111
    [] c = "r" -> 114
    [] c = "t" -> 116
    [] c = "w" -> 119
    [] c = "x" -> 120
    [] c = "y" -> 121
    [] c = "z" -> 122
    [] OTHER -> 255

RECURSIVE StrLess(_, _)
\* a < b for Go strings (cmp.Compare(a, b) < 0)
StrLess(a, b) ==
  IF b = S0 THEN FALSE
  ELSE IF a = S0 THEN TRUE
  ELSE IF CharCode(Head(a)) # CharCode(Head(b))
       THEN CharCode(Head(a)) < CharCode(Head(b))
       ELSE StrLess(Tail(a), Tail(b))

HasPrefix(s, pre) ==
  /\ Len(pre) <= Len(s)
  /\ SubSeq(s, 1, Len(pre)) = pre

HasSuffix(s, suf) ==
  /\ Len(suf) <= Len(s)
  /\ SubSeq(s, Len(s) - Len(suf) + 1, Len(s)) = suf

TrimPrefix(s, pre) ==
  IF HasPrefix(s, pre) THEN SubSeq(s, Len(pre) + 1, Len(s)) ELSE s

TrimSuffix(s, suf) ==
  IF HasSuffix(s, suf) THEN SubSeq(s, 1, Len(s) - Len(suf)) ELSE s

\* strings.Index(s, "/"): 0-based index of the first "/", -1 when there is none
IndexSlash(s) ==
  IF \E i \in 1..Len(s) : s[i] = "/"
  THEN (CHOOSE i \in 1..Len(s) : s[i] = "/" /\ \A j \in 1..(i-1) : s[j] # "/") - 1
  ELSE -1

\* strings.LastIndex(s, "/")
LastIndexSlash(s) ==
  IF \E i \in 1..Len(s) : s[i] = "/"
  THEN (CHOOSE i \in 1..Len(s) : s[i] = "/" /\ \A j \in (i+1)..Len(s) : s[j] # "/") - 1
  ELSE -1

RECURSIVE Split(_)
\* strings.Split(s, "/"), given the index i of the first "/" of s
SplitAt(s, i) ==
  IF i = -1 THEN << s >>
  ELSE << SubSeq(s, 1, i) >> \o Split(SubSeq(s, i + 2, Len(s)))

\* strings.Split(s, "/")
Split(s) == SplitAt(s, IndexSlash(s))

RECURSIVE Join(_)
\* strings.Join(segs, "/")
Join(segs) ==
  IF segs = << >> THEN S0
  ELSE IF Len(segs) = 1 THEN segs[1]
  ELSE segs[1] \o << "/" >> \o Join(Tail(segs))

RECURSIVE CleanSegs(_, _, _)
\* the element loop of path.Clean: drops empty and "." elements, lets ".."
\* remove the element before it, and keeps a leading ".." of a path that is
\* not rooted
CleanSegs(segs, rooted, out) ==
  IF segs = << >> THEN out
  ELSE IF Head(segs) = S0 \/ Head(segs) = << "." >>
  THEN CleanSegs(Tail(segs), rooted, out)
  ELSE IF Head(segs) = << ".", "." >>
  THEN IF out # << >> /\ out[Len(out)] # << ".", "." >>
       THEN CleanSegs(Tail(segs), rooted, SubSeq(out, 1, Len(out) - 1))
       ELSE IF rooted THEN CleanSegs(Tail(segs), rooted, out)
       ELSE CleanSegs(Tail(segs), rooted, Append(out, Head(segs)))
  ELSE CleanSegs(Tail(segs), rooted, Append(out, Head(segs)))

\* path.Clean of the Go standard library
\* the end of path.Clean: an empty result is "."
DotIfEmpty(res) == IF res = S0 THEN << "." >> ELSE res

\* the cleaned elements, behind the "/" of a rooted path
Rooted(rooted, body) == IF rooted THEN << "/" >> \o body ELSE body

PathClean(p) ==
  IF p = S0 THEN << "." >>
  ELSE DotIfEmpty(Rooted(Head(p) = "/",
                         Join(CleanSegs(Split(p), Head(p) = "/", << >>))))

\* path/filepath.Base: the last element of the path
LastOf(segs) == IF segs = << >> THEN << "/" >> ELSE segs[Len(segs)]

PathBase(p) ==
  IF p = S0 THEN << "." >>
  ELSE LastOf(SelectSeq(Split(p), LAMBDA s : s # S0))

\* the end of normalizePath: "." is the root
EmptyIfDot(q) == IF q = << "." >> THEN S0 ELSE q

\* normalizePath that returns what is left of the cleaned path as it is
normalizePath_KeepsDot(p) ==
  IF p = S0 \/ p = << "." >> \/ p = << "/" >> THEN S0
  ELSE TrimSuffix(TrimPrefix(PathClean(p), << "/" >>), << "/" >>)

normalizePath(p) ==
  IF p = S0 \/ p = << "." >> \/ p = << "/" >> THEN S0
  ELSE EmptyIfDot(TrimSuffix(TrimPrefix(PathClean(p), << "/" >>), << "/" >>))

----------------------------------------------------------------------------
(* Directory synthesizer (internal/archive)                                *)

MaxPreviewBytes == 512 * 1024

\* index.EntriesWithPrefix(prefix): the entries of the index, in index
\* order, whose path starts with prefix
EntriesWithPrefix(index, prefix) ==
  SelectSeq(index, LAMBDA e : HasPrefix(e.path, prefix))

\* a file child and a synthesized directory child of ListDir
FileEntry(name, entry) ==
  [Name |-> name, Path |-> entry.path, IsDir |-> FALSE, Size |-> entry.size]

DirEntry(name, dirPath) ==
  [Name |-> name,
   Path |-> IF dirPath = S0 THEN name ELSE dirPath \o << "/" >> \o name,
   IsDir |-> TRUE, Size |-> 0]

\* the first path component of relPath, given the index of its first "/"
ChildName(relPath, slashIdx) ==
  IF slashIdx = -1 THEN relPath ELSE SubSeq(relPath, 1, slashIdx)

\* the loop of ListDir with the map keyed by the path of the index entry
\* instead of the name of the child
ListDirEntry_KeyedByPath(entry, relPath, slashIdx, dirPath, seen) ==
  IF relPath = S0 THEN seen
  ELSE IF slashIdx = -1
  THEN seen \cup {FileEntry(ChildName(relPath, slashIdx), entry)}
  ELSE seen \cup {DirEntry(ChildName(relPath, slashIdx), dirPath)}

\* one pass of the loop of ListDir: the map seen after the entry with the
\* relative path relPath, whose first "/" is at slashIdx
ListDirEntry(entry, relPath, slashIdx, dirPath, seen) ==
  IF relPath = S0 THEN seen
  ELSE IF \E d \in seen : d.Name = ChildName(relPath, slashIdx) THEN seen
  ELSE IF slashIdx = -1
  THEN seen \cup {FileEntry(ChildName(relPath, slashIdx), entry)}
  ELSE seen \cup {DirEntry(ChildName(relPath, slashIdx), dirPath)}

ListDirRel(entry, relPath, dirPath, seen) ==
  ListDirEntry(entry, relPath, IndexSlash(relPath), dirPath, seen)

RECURSIVE ListDirLoop(_, _, _, _)
\* the loop of ListDir over the prefix-filtered entries; seen is the map
\* from child name to child, held as the set of its values
ListDirLoop(ents, prefix, dirPath, seen) ==
  IF ents = << >> THEN seen
  ELSE ListDirLoop(Tail(ents), prefix, dirPath,
                   ListDirRel(Head(ents), TrimPrefix(Head(ents).path, prefix),
                              dirPath, seen))

ByName(a, b) == StrLess(a.Name, b.Name)

DirsFirstLess(a, b) ==
  IF a.IsDir /\ ~b.IsDir THEN TRUE
  ELSE IF ~a.IsDir /\ b.IsDir THEN FALSE
  ELSE StrLess(a.Name, b.Name)

RECURSIVE SortByName(_)
\* slices.SortFunc(entries, cmp.Compare(a.Name, b.Name)) of the map's values
SortByNameFrom(set, m) == << m >> \o SortByName(set \ {m})

SortByName(set) ==
  IF set = {} THEN << >>
  ELSE SortByNameFrom(set, CHOOSE x \in set : \A y \in set \ {x} : ~ByName(y, x))

RECURSIVE SortDirsFirstSet(_)
\* slices.SortFunc with the directories-first comparison
SortDirsFirstFrom(set, m) == << m >> \o SortDirsFirstSet(set \ {m})

SortDirsFirstSet(set) ==
  IF set = {} THEN << >>
  ELSE SortDirsFirstFrom(set,
         CHOOSE x \in set : \A y \in set \ {x} : ~DirsFirstLess(y, x))

\* ListDir that sorts the directories before the files
ListDirUnder_DirsFirst(index, dirPath, prefix) ==
  SortDirsFirstSet(ListDirLoop(EntriesWithPrefix(index, prefix), prefix, dirPath, {}))

\* ListDir under the prefix built for the normalized dirPath
ListDirUnder(index, dirPath, prefix) ==
  SortByName(ListDirLoop(EntriesWithPrefix(index, prefix), prefix, dirPath, {}))

ListDirIn(index, dirPath) ==
  ListDirUnder(index, dirPath, IF dirPath = S0 THEN S0 ELSE dirPath \o << "/" >>)

ListDir(index, dir) == ListDirIn(index, normalizePath(dir))

SortDirsFirst(entries) ==
  SortDirsFirstSet({entries[i] : i \in 1..Len(entries)})

\* an entry of a tree of BuildTree: the DirEntry with its Children
Node(e, children) ==
  [Name |-> e.Name, Path |-> e.Path, IsDir |-> e.IsDir, Size |-> e.Size,
   Children |-> children]

RECURSIVE buildTreeRecursive(_, _, _, _)
\* the loop of buildTreeRecursive: every entry becomes a child, and the
\* children of a directory are built one level further down
ChildNodes(index, entries, currentDepth, maxDepth) ==
  [i \in 1..Len(entries) |->
     IF entries[i].IsDir
     THEN Node(entries[i],
               buildTreeRecursive(index, entries[i].Path, currentDepth + 1, maxDepth))
     ELSE Node(entries[i], << >>)]

\* buildTreeRecursive: the Children it gives the parent at dirPath
buildTreeRecursive(index, dirPath, currentDepth, maxDepth) ==
  IF maxDepth > 0 /\ currentDepth > maxDepth THEN << >>
  ELSE ChildNodes(index, ListDir(index, dirPath), currentDepth, maxDepth)

\* BuildTree once dirPath is normalized
BuildTreeAt(index, dirPath, maxDepth) ==
  [Name |-> IF dirPath = S0 THEN << "." >> ELSE PathBase(dirPath),
   Path |-> dirPath, IsDir |-> TRUE, Size |-> 0,
   Children |-> buildTreeRecursive(index, dirPath, 1, maxDepth)]

BuildTree(index, dirPath, maxDepth) ==
  BuildTreeAt(index, normalizePath(dirPath), maxDepth)

----------------------------------------------------------------------------
(* Binary detection (internal/tui/detect)                                  *)

\* content is a sequence of bytes, numbers in 0..255
maxScanSize == 8 * 1024

\* content[:min(len(content), maxScanSize)]
Sample(content) ==
  SubSeq(content, 1, IF Len(content) < maxScanSize THEN Len(content) ELSE maxScanSize)

isControlChar(b) == (b < 32 /\ b # 9 /\ b # 10 /\ b # 13) \/ b = 127

\* unicode/utf8: a continuation byte, and the length of the encoding that
\* begins with the byte b, 0 when no encoding begins with it
IsContinuation(b) == b \in 128..191

EncodingLen(b) ==
  IF b < 128 THEN 1
  ELSE IF b \in 194..223 THEN 2
  ELSE IF b \in 224..239 THEN 3
  ELSE IF b \in 240..244 THEN 4
  ELSE 0

\* the values the byte after the first byte b of an encoding may have
SecondBytes(b) ==
  IF b = 224 THEN 160..191
  ELSE IF b = 237 THEN 128..159
  ELSE IF b = 240 THEN 144..191
  ELSE IF b = 244 THEN 128..143
  ELSE 128..191

\* an encoding begins at i and is complete
EncodingAt(s, i) ==
  /\ EncodingLen(s[i]) > 0
  /\ i + EncodingLen(s[i]) - 1 <= Len(s)
  /\ EncodingLen(s[i]) > 1 => s[i + 1] \in SecondBytes(s[i])
  /\ \A j \in (i + 2)..(i + EncodingLen(s[i]) - 1) : IsContinuation(s[j])

\* the continuation byte at i belongs to an encoding that begins before it
ContinuesAt(s, i) ==
  \E k \in 1..3 :
    /\ i - k >= 1
    /\ ~IsContinuation(s[i - k])
    /\ EncodingLen(s[i - k]) > k
    /\ \A j \in (i - k + 1)..(i - 1) : IsContinuation(s[j])

\* utf8.Valid: the bytes are encodings of runes, one after the other
utf8Valid(s) ==
  \A i \in 1..Len(s) :
    IF IsContinuation(s[i]) THEN ContinuesAt(s, i) ELSE EncodingAt(s, i)

controlCount(sample) ==
  Cardinality({ i \in 1..Len(sample) : isControlChar(sample[i]) })

\* IsBinary from the sample on
IsBinarySample(sample) ==
  IF \E i \in 1..Len(sample) : sample[i] = 0 THEN TRUE
  ELSE IF ~utf8Valid(sample) THEN TRUE
  ELSE controlCount(sample) > Len(sample) \div 10

\* IsBinary that looks at all of the content
IsBinary_ScansAll(content) ==
  IF Len(content) = 0 THEN FALSE ELSE IsBinarySample(content)

IsBinary(content) ==
  IF Len(content) = 0 THEN FALSE ELSE IsBinarySample(Sample(content))

----------------------------------------------------------------------------
(* File tree component (internal/tui/components/filetree)                  *)

\* lines of the tree pane that hold no entry (borders, header, separator)
TreeChrome == 6

visibleLines(t) == t.height - TreeChrome

\* adjustScroll: scroll up if the cursor is above the window
ScrollUp(t) == IF t.cursor < t.offset THEN [t EXCEPT !.offset = t.cursor] ELSE t

\* adjustScroll that puts the cursor on the first line when it is below
ScrollDown_ToCursor(t) ==
  IF t.cursor >= t.offset + visibleLines(t)
  THEN [t EXCEPT !.offset = t.cursor]
  ELSE t

\* adjustScroll: scroll down if the cursor is below the window
ScrollDown(t) ==
  IF t.cursor >= t.offset + visibleLines(t)
  THEN [t EXCEPT !.offset = t.cursor - visibleLines(t) + 1]
  ELSE t

adjustScroll(t) == IF visibleLines(t) <= 0 THEN t ELSE ScrollDown(ScrollUp(t))

\* loadDir that keeps the listing in the order of ListDir, by name alone
loadDir_NameOrder(t, dir) ==
  [t EXCEPT !.currentDir = dir,
            !.cursor = 0,
            !.offset = 0,
            !.entries = ListDir(t.index, dir)]

loadDir(t, dir) ==
  [t EXCEPT !.currentDir = dir,
            !.cursor = 0,
            !.offset = 0,
            !.entries = SortDirsFirst(ListDir(t.index, dir))]

\* the zero value of filetree.Model, held by the root model before the load
ZeroTree ==
  [index |-> << >>, entries |-> << >>, height |-> 0, cursor |-> 0,
   offset |-> 0, currentDir |-> S0, width |-> 0, focused |-> FALSE,
   history |-> << >>]

FiletreeNew(index) == loadDir([ZeroTree EXCEPT !.index = index], S0)

\* SetSize that stores the size and leaves the scroll offset as it is
SetSize_KeepsOffset(t, width, height) ==
  [t EXCEPT !.width = width, !.height = height]

SetSize(t, width, height) ==
  adjustScroll([t EXCEPT !.width = width, !.height = height])

\* m.entries[m.cursor] with the cursor outside the slice: a Go run-time panic
SelectedPanics(t) ==
  /\ Len(t.entries) # 0
  /\ t.cursor \notin 0..(Len(t.entries) - 1)

\* Selected: << >> is nil, << e >> is a pointer to the entry e
Selected(t) ==
  IF Len(t.entries) = 0 \/ SelectedPanics(t) THEN << >>
  ELSE << t.entries[t.cursor + 1] >>

\* CursorUp that wraps from the first entry to the last
CursorUp_Wraps(t) ==
  IF t.cursor > 0 THEN adjustScroll([t EXCEPT !.cursor = t.cursor - 1])
  ELSE adjustScroll([t EXCEPT !.cursor = Len(t.entries) - 1])

CursorUp(t) ==
  IF t.cursor > 0 THEN adjustScroll([t EXCEPT !.cursor = t.cursor - 1]) ELSE t

\* CursorDown that steps once past the last entry
CursorDown_PastEnd(t) ==
  IF t.cursor <= Len(t.entries) - 1
  THEN adjustScroll([t EXCEPT !.cursor = t.cursor + 1])
  ELSE t

CursorDown(t) ==
  IF t.cursor < Len(t.entries) - 1
  THEN adjustScroll([t EXCEPT !.cursor = t.cursor + 1])
  ELSE t

historyEntry(t) == [dir |-> t.currentDir, cursor |-> t.cursor, offset |-> t.offset]

\* Enter: the current state is appended to the history
Saved(t) == [t EXCEPT !.history = Append(t.history, historyEntry(t))]

\* Enter that saves a history entry whatever is selected
Enter_SavesAlways(t) ==
  IF Selected(t) = << >> THEN [tree |-> Saved(t), ok |-> FALSE]
  ELSE IF Selected(t)[1].IsDir
  THEN [tree |-> loadDir(Saved(t), Selected(t)[1].Path), ok |-> TRUE]
  ELSE [tree |-> Saved(t), ok |-> FALSE]

\* Enter: the tree after the call and the returned flag
Enter(t) ==
  IF Selected(t) = << >> THEN [tree |-> t, ok |-> FALSE]
  ELSE IF Selected(t)[1].IsDir
  THEN [tree |-> loadDir(Saved(t), Selected(t)[1].Path), ok |-> TRUE]
  ELSE [tree |-> t, ok |-> FALSE]

parentPath(p) ==
  IF p = S0 THEN S0
  ELSE IF LastIndexSlash(p) = -1 THEN S0
  ELSE SubSeq(p, 1, LastIndexSlash(p))

Last(history) == history[Len(history)]

\* Back: the last history entry is popped and its directory loaded
Popped(t) ==
  loadDir([t EXCEPT !.history = SubSeq(t.history, 1, Len(t.history) - 1)],
          Last(t.history).dir)

\* Back that restores the saved cursor and lets the offset follow it
Back_OffsetFollows(t) ==
  IF Len(t.history) > 0
  THEN [tree |-> adjustScroll([Popped(t) EXCEPT !.cursor = Last(t.history).cursor]),
        ok |-> TRUE]
  ELSE IF t.currentDir = S0 THEN [tree |-> t, ok |-> FALSE]
  ELSE [tree |-> loadDir(t, parentPath(t.currentDir)), ok |-> TRUE]

\* Back that goes to the directory of the last frame and keeps the frame
Back_KeepsFrame(t) ==
  IF Len(t.history) > 0
  THEN [tree |-> adjustScroll([loadDir(t, Last(t.history).dir)
                                 EXCEPT !.cursor = Last(t.history).cursor,
                                        !.offset = Last(t.history).offset]),
        ok |-> TRUE]
  ELSE IF t.currentDir = S0 THEN [tree |-> t, ok |-> FALSE]
  ELSE [tree |-> loadDir(t, parentPath(t.currentDir)), ok |-> TRUE]

\* Back that goes to the parent without asking whether there is one
Back_TrueAtRoot(t) ==
  IF Len(t.history) > 0
  THEN [tree |-> adjustScroll([Popped(t) EXCEPT !.cursor = Last(t.history).cursor,
                                                !.offset = Last(t.history).offset]),
        ok |-> TRUE]
  ELSE [tree |-> loadDir(t, parentPath(t.currentDir)), ok |-> TRUE]

\* Back: the tree after the call and the returned flag
Back(t) ==
  IF Len(t.history) > 0
  THEN [tree |-> adjustScroll([Popped(t) EXCEPT !.cursor = Last(t.history).cursor,
                                                !.offset = Last(t.history).offset]),
        ok |-> TRUE]
  ELSE IF t.currentDir = S0 THEN [tree |-> t, ok |-> FALSE]
  ELSE [tree |-> loadDir(t, parentPath(t.currentDir)), ok |-> TRUE]

----------------------------------------------------------------------------
(* Preview component (internal/tui/components/preview)                     *)

\* the zero value of preview.Model; shown is what the viewport holds
PreviewNew ==
  [path |-> S0, height |-> 0, width |-> 0, focused |-> FALSE,
   state |-> "None", language |-> "", errMsg |-> "", ready |-> FALSE,
   shown |-> << >>]

\* viewport.SetContent, done only once the viewport exists
ViewportSet(p, what) == IF p.ready THEN [p EXCEPT !.shown = what] ELSE p

PreviewSetSize(p, width, height) ==
  [p EXCEPT !.width = width, !.height = height, !.ready = TRUE]

SetLoading(p, path) ==
  ViewportSet([p EXCEPT !.state = "Loading", !.path = path, !.language = "", !.errMsg = ""],
       << "loading", path >>)

\* lexers.Match(filename): the lexer registry of the model matches the file
\* names that end in "g"
GetLanguage(filename) ==
  IF HasSuffix(filename, << "g" >>) THEN "Go" ELSE ""

\* SetContent that keeps an error the preview is showing
SetContent_KeepsError(p, path, content, isBinary) ==
  IF p.state = "Error" THEN p
  ELSE IF isBinary
  THEN ViewportSet([p EXCEPT !.path = path, !.errMsg = "", !.state = "Binary"],
                   << "hex", path, content.len > MaxPreviewBytes >>)
  ELSE ViewportSet([p EXCEPT !.path = path, !.errMsg = "", !.state = "Text",
                             !.language = GetLanguage(path)],
                   << "text", path, content.len > MaxPreviewBytes >>)

SetContent(p, path, content, isBinary) ==
  IF isBinary
  THEN ViewportSet([p EXCEPT !.path = path, !.errMsg = "", !.state = "Binary"],
                   << "hex", path, content.len > MaxPreviewBytes >>)
  ELSE ViewportSet([p EXCEPT !.path = path, !.errMsg = "", !.state = "Text",
                             !.language = GetLanguage(path)],
                   << "text", path, content.len > MaxPreviewBytes >>)

SetError(p, path, err) ==
  ViewportSet([p EXCEPT !.state = "Error", !.path = path, !.language = "", !.errMsg = err],
       << "error", path >>)

SetDir(p, path) ==
  ViewportSet([p EXCEPT !.state = "Dir", !.path = path, !.language = "", !.errMsg = ""],
       << "dir", path >>)

SetTooLarge(p, path, size) ==
  ViewportSet([p EXCEPT !.state = "TooLarge", !.path = path, !.language = "", !.errMsg = ""],
       << "toolarge", path, size >>)

SetNone(p) ==
  ViewportSet([p EXCEPT !.state = "None", !.path = S0, !.language = "", !.errMsg = ""],
       << "none" >>)

----------------------------------------------------------------------------
(* Copy dialog (internal/tui/components/copydialog)                        *)

\* the text input of the dialog: its value and the caret position
CopydialogNew == [visible |-> FALSE, sourcePath |-> S0, value |-> S0, pos |-> 0]

\* Show: the input takes the base name, the caret goes to its end
ShowWith(d, sourcePath, baseName) ==
  [d EXCEPT !.sourcePath = sourcePath, !.visible = TRUE,
            !.value = baseName, !.pos = Len(baseName)]

DialogShow(d, sourcePath) == ShowWith(d, sourcePath, PathBase(sourcePath))

Hide(d) == [d EXCEPT !.visible = FALSE]

\* the keys that insert their character into a text input
Runes == {"c", "?"}

\* textinput.Update for a key: a rune is inserted at the caret, backspace
\* deletes the character before it, left and right move it
InputKey(d, key) ==
  IF key \in Runes
  THEN [d EXCEPT !.value = SubSeq(d.value, 1, d.pos) \o << key >>
                             \o SubSeq(d.value, d.pos + 1, Len(d.value)),
                 !.pos = d.pos + 1]
  ELSE IF key = "backspace" /\ d.pos > 0
  THEN [d EXCEPT !.value = SubSeq(d.value, 1, d.pos - 1)
                             \o SubSeq(d.value, d.pos + 1, Len(d.value)),
                 !.pos = d.pos - 1]
  ELSE IF key = "left" /\ d.pos > 0 THEN [d EXCEPT !.pos = d.pos - 1]
  ELSE IF key = "right" /\ d.pos < Len(d.value) THEN [d EXCEPT !.pos = d.pos + 1]
  ELSE d

DialogUpdate(d, key) == IF ~d.visible THEN d ELSE InputKey(d, key)

----------------------------------------------------------------------------
(* Status bar (internal/tui/components/statusbar)                          *)

StatusbarNew ==
  [path |-> S0, entryCount |-> 0, message |-> << >>, isError |-> FALSE,
   hasSelection |-> FALSE, selectedName |-> S0, selectedSize |-> 0,
   selectedIsDir |-> FALSE]

SetMessage(sb, msg) == [sb EXCEPT !.message = msg, !.isError = FALSE]

StatusSetError(sb, err) == [sb EXCEPT !.message = << err >>, !.isError = TRUE]

SetSelectedFile(sb, name, size, isDir) ==
  [sb EXCEPT !.selectedName = name, !.selectedSize = size,
             !.selectedIsDir = isDir, !.hasSelection = TRUE]

ClearSelection(sb) == [sb EXCEPT !.hasSelection = FALSE, !.selectedName = S0]

\* ClearMessage: expired is time.Now().After(m.messageExp)
ClearMessage(sb, expired) ==
  IF sb.message # << >> /\ expired
  THEN [sb EXCEPT !.message = << >>, !.isError = FALSE]
  ELSE sb

\* the commands of the model: a running task that will deliver one message
LoadTask == [path |-> S0, kind |-> "load", dest |-> S0]
FetchTask(path) == [path |-> path, kind |-> "fetch", dest |-> S0]
CopyTask(src, dst) == [path |-> src, kind |-> "copy", dest |-> dst]
ScheduleClear == [path |-> S0, kind |-> "clear", dest |-> S0]

----------------------------------------------------------------------------
(* Root model (internal/tui/open)                                          *)

\* lines of the window below the panes (the status bar)
StatusLines == 1

\* open.New: the model in loading state, its components zero values
New ==
  [index |-> << >>, height |-> 0, width |-> 0,
   tree |-> ZeroTree, state |-> "loading", ready |-> FALSE,
   loadErr |-> "", preview |-> PreviewNew, copyDialog |-> CopydialogNew,
   statusBar |-> StatusbarNew, focus |-> "tree", showHelp |-> FALSE]

\* what Update returns: the model, the commands, whether one of them is
\* tea.Quit, and whether the handler ended in a run-time panic
Res(m, cmds) == [m |-> m, cmds |-> cmds, quit |-> FALSE, panic |-> FALSE]
QuitRes(m) == [m |-> m, cmds |-> << >>, quit |-> TRUE, panic |-> FALSE]
WithPanic(r, b) == [r EXCEPT !.panic = r.panic \/ b]

updateSelectionStatus(m) ==
  IF Selected(m.tree) = << >>
  THEN [m EXCEPT !.statusBar = ClearSelection(m.statusBar)]
  ELSE [m EXCEPT !.statusBar =
          SetSelectedFile(m.statusBar, Selected(m.tree)[1].Name,
                          Selected(m.tree)[1].Size, Selected(m.tree)[1].IsDir)]

updateStatusBar(m) ==
  [m EXCEPT !.statusBar = [m.statusBar EXCEPT !.path = m.tree.currentDir,
                                              !.entryCount = Len(m.tree.entries)]]

\* loadSelectedPreview that takes a file of exactly MaxPreviewBytes as too large
loadSelectedPreview_LargeAtMax(m) ==
  IF Selected(m.tree) = << >>
  THEN [recv |-> [m EXCEPT !.preview = SetNone(m.preview)], cmd |-> << >>]
  ELSE IF Selected(m.tree)[1].IsDir
  THEN [recv |-> [m EXCEPT !.preview = SetDir(m.preview, Selected(m.tree)[1].Path)],
        cmd |-> << >>]
  ELSE IF Selected(m.tree)[1].Size >= MaxPreviewBytes
  THEN [recv |-> [m EXCEPT !.preview = SetTooLarge(m.preview, Selected(m.tree)[1].Path,
                                                  Selected(m.tree)[1].Size)],
        cmd |-> << >>]
  ELSE [recv |-> [m EXCEPT !.preview = SetLoading(m.preview, Selected(m.tree)[1].Path)],
        cmd |-> << FetchTask(Selected(m.tree)[1].Path) >>]

\* loadSelectedPreview has a value receiver: recv is the method's own copy
\* of the model when it returns, cmd the command it returns.  The caller
\* keeps its model and gets cmd.
loadSelectedPreview(m) ==
  IF Selected(m.tree) = << >>
  THEN [recv |-> [m EXCEPT !.preview = SetNone(m.preview)], cmd |-> << >>]
  ELSE IF Selected(m.tree)[1].IsDir
  THEN [recv |-> [m EXCEPT !.preview = SetDir(m.preview, Selected(m.tree)[1].Path)],
        cmd |-> << >>]
  ELSE IF Selected(m.tree)[1].Size > MaxPreviewBytes
  THEN [recv |-> [m EXCEPT !.preview = SetTooLarge(m.preview, Selected(m.tree)[1].Path,
                                                  Selected(m.tree)[1].Size)],
        cmd |-> << >>]
  ELSE [recv |-> [m EXCEPT !.preview = SetLoading(m.preview, Selected(m.tree)[1].Path)],
        cmd |-> << FetchTask(Selected(m.tree)[1].Path) >>]

\* handleResize: the sizes of the panes
Resized(m, msg, treeWidth, contentHeight) ==
  [m EXCEPT !.width = msg.width, !.height = msg.height, !.ready = TRUE,
            !.tree = SetSize(m.tree, treeWidth, contentHeight),
            !.preview = PreviewSetSize(m.preview, msg.width - treeWidth, contentHeight)]

handleResize(m, msg) ==
  Res(updateStatusBar(Resized(m, msg, (msg.width * 40) \div 100,
                              msg.height - StatusLines)),
      << >>)

\* toggleFocus that leaves the tree marked as focused
toggleFocus_TreeStaysFocused(m) ==
  IF m.focus = "tree"
  THEN [m EXCEPT !.focus = "preview", !.preview.focused = TRUE]
  ELSE [m EXCEPT !.focus = "tree", !.tree.focused = TRUE, !.preview.focused = FALSE]

toggleFocus(m) ==
  IF m.focus = "tree"
  THEN [m EXCEPT !.focus = "preview", !.tree.focused = FALSE, !.preview.focused = TRUE]
  ELSE [m EXCEPT !.focus = "tree", !.tree.focused = TRUE, !.preview.focused = FALSE]

\* startCopy that opens the dialog for whatever entry is selected
startCopy_AnyEntry(m) ==
  WithPanic(
    IF Selected(m.tree) = << >>
    THEN Res([m EXCEPT !.statusBar = SetMessage(m.statusBar, << "Select a file to copy" >>)],
             << ScheduleClear >>)
    ELSE Res([m EXCEPT !.copyDialog = DialogShow(m.copyDialog, Selected(m.tree)[1].Path)],
             << >>),
    SelectedPanics(m.tree))

startCopy(m) ==
  WithPanic(
    IF Selected(m.tree) = << >> \/ Selected(m.tree)[1].IsDir
    THEN Res([m EXCEPT !.statusBar = SetMessage(m.statusBar, << "Select a file to copy" >>)],
             << ScheduleClear >>)
    ELSE Res([m EXCEPT !.copyDialog = DialogShow(m.copyDialog, Selected(m.tree)[1].Path)],
             << >>),
    SelectedPanics(m.tree))

\* executeCopy that starts the copy without looking at the destination
executeCopy_NoCheck(m) ==
  Res(m, << CopyTask(m.copyDialog.sourcePath, m.copyDialog.value) >>)

executeCopy(m) ==
  IF m.copyDialog.value = S0
  THEN Res([m EXCEPT !.statusBar = SetMessage(m.statusBar, << "Destination path required" >>)],
           << ScheduleClear >>)
  ELSE Res(m, << CopyTask(m.copyDialog.sourcePath, m.copyDialog.value) >>)

\* after a tree operation: refresh the selection status, load the preview
\* return m, m.loadSelectedPreview()
WithPreviewCmd(m) == Res(m, loadSelectedPreview(m).cmd)

AfterTreeOp(m) ==
  WithPanic(WithPreviewCmd(updateSelectionStatus(m)), SelectedPanics(m.tree))

\* handleTreeKeys, keys.Left: b is what Back did and returned
AfterBack(m, b) ==
  IF b.ok THEN AfterTreeOp(updateStatusBar([m EXCEPT !.tree = b.tree]))
  ELSE Res(m, << >>)

\* handleTreeKeys, keys.Right and keys.Enter: e is what Enter did and returned
AfterEnter(m, e) ==
  WithPanic(
    IF e.ok THEN AfterTreeOp(updateStatusBar([m EXCEPT !.tree = e.tree]))
    ELSE AfterTreeOp(m),
    SelectedPanics(m.tree))

handleTreeKeys(m, key) ==
  IF key = "up" THEN AfterTreeOp([m EXCEPT !.tree = CursorUp(m.tree)])
  ELSE IF key = "down" THEN AfterTreeOp([m EXCEPT !.tree = CursorDown(m.tree)])
  ELSE IF key \in {"left", "backspace"} THEN AfterBack(m, Back(m.tree))
  ELSE IF key \in {"right", "enter"} THEN AfterEnter(m, Enter(m.tree))
  ELSE Res(m, << >>)

\* the viewport scrolls; its scroll position is not part of the model
handlePreviewKeys(m, key) == Res(m, << >>)

\* handleKeys in which escape quits whether or not the help is shown
handleKeys_EscapeQuits(m, key) ==
  IF key \in {"q", "esc"} THEN QuitRes(m)
  ELSE IF key = "?" THEN Res([m EXCEPT !.showHelp = ~m.showHelp], << >>)
  ELSE IF key = "tab" THEN Res(toggleFocus(m), << >>)
  ELSE IF key = "c" THEN startCopy(m)
  ELSE IF m.focus = "tree" THEN handleTreeKeys(m, key)
  ELSE handlePreviewKeys(m, key)

handleKeys(m, key) ==
  IF key = "q" THEN QuitRes(m)
  ELSE IF key = "esc"
  THEN IF m.showHelp THEN Res([m EXCEPT !.showHelp = FALSE], << >>) ELSE QuitRes(m)
  ELSE IF key = "?" THEN Res([m EXCEPT !.showHelp = ~m.showHelp], << >>)
  ELSE IF key = "tab" THEN Res(toggleFocus(m), << >>)
  ELSE IF key = "c" THEN startCopy(m)
  ELSE IF m.focus = "tree" THEN handleTreeKeys(m, key)
  ELSE handlePreviewKeys(m, key)

handleCopyDialogKeys(m, key) ==
  IF key = "esc" THEN Res([m EXCEPT !.copyDialog = Hide(m.copyDialog)], << >>)
  ELSE IF key = "enter" THEN executeCopy(m)
  ELSE Res([m EXCEPT !.copyDialog = DialogUpdate(m.copyDialog, key)], << >>)

\* updateReady that clears the preview when a copy has completed
updateReady_CopyClearsPreview(m, msg) ==
  IF msg.type = "Key"
  THEN IF m.copyDialog.visible THEN handleCopyDialogKeys(m, msg.key)
       ELSE handleKeys(m, msg.key)
  ELSE IF msg.type = "FileContent"
  THEN Res([m EXCEPT !.preview = SetContent(m.preview, msg.path, msg.content, msg.isBinary)],
           << >>)
  ELSE IF msg.type = "FileError"
  THEN Res([m EXCEPT !.preview = SetError(m.preview, msg.path, msg.err),
                     !.statusBar = StatusSetError(m.statusBar, msg.err)],
           << ScheduleClear >>)
  ELSE IF msg.type = "CopyComplete"
  THEN Res([m EXCEPT !.copyDialog = Hide(m.copyDialog),
                     !.preview = SetNone(m.preview),
                     !.statusBar = SetMessage(m.statusBar, << "Copied to ", msg.dest >>)],
           << ScheduleClear >>)
  ELSE IF msg.type = "CopyError"
  THEN Res([m EXCEPT !.copyDialog = Hide(m.copyDialog),
                     !.statusBar = StatusSetError(m.statusBar, msg.err)],
           << ScheduleClear >>)
  ELSE IF msg.type = "ClearMessage"
  THEN Res([m EXCEPT !.statusBar = ClearMessage(m.statusBar, msg.expired)], << >>)
  ELSE Res(m, << >>)

updateReady(m, msg) ==
  IF msg.type = "Key"
  THEN IF m.copyDialog.visible THEN handleCopyDialogKeys(m, msg.key)
       ELSE handleKeys(m, msg.key)
  ELSE IF msg.type = "FileContent"
  THEN Res([m EXCEPT !.preview = SetContent(m.preview, msg.path, msg.content, msg.isBinary)],
           << >>)
  ELSE IF msg.type = "FileError"
  THEN Res([m EXCEPT !.preview = SetError(m.preview, msg.path, msg.err),
                     !.statusBar = StatusSetError(m.statusBar, msg.err)],
           << ScheduleClear >>)
  ELSE IF msg.type = "CopyComplete"
  THEN Res([m EXCEPT !.copyDialog = Hide(m.copyDialog),
                     !.statusBar = SetMessage(m.statusBar, << "Copied to ", msg.dest >>)],
           << ScheduleClear >>)
  ELSE IF msg.type = "CopyError"
  THEN Res([m EXCEPT !.copyDialog = Hide(m.copyDialog),
                     !.statusBar = StatusSetError(m.statusBar, msg.err)],
           << ScheduleClear >>)
  ELSE IF msg.type = "ClearMessage"
  THEN Res([m EXCEPT !.statusBar = ClearMessage(m.statusBar, msg.expired)], << >>)
  ELSE Res(m, << >>)

\* updateLoading, ArchiveLoadedMsg: the components are built
Loaded(m, msg) ==
  [m EXCEPT !.state = "ready", !.index = msg.index,
            !.tree = [FiletreeNew(msg.index) EXCEPT !.focused = TRUE],
            !.preview = PreviewNew,
            !.copyDialog = CopydialogNew,
            !.statusBar = StatusbarNew]

\* updateLoading: if the window size is already known, apply it
SizedIfKnown(m) ==
  IF m.width > 0 /\ m.height > 0
  THEN handleResize(m, [height |-> m.height, width |-> m.width,
                        type |-> "WindowSize"]).m
  ELSE m

updateLoading(m, msg) ==
  IF msg.type = "Key"
  THEN IF msg.key = "esc" THEN QuitRes(m) ELSE Res(m, << >>)
  ELSE IF msg.type = "ArchiveLoaded"
  THEN WithPreviewCmd(updateSelectionStatus(SizedIfKnown(Loaded(m, msg))))
  ELSE IF msg.type = "ArchiveError"
  THEN Res([m EXCEPT !.state = "error", !.loadErr = msg.err], << >>)
  ELSE Res(m, << >>)

updateError(m, msg) ==
  IF msg.type = "Key" /\ msg.key = "esc" THEN QuitRes(m) ELSE Res(m, << >>)

\* Update that hands a model that is not ready to updateLoading
Update_ErrorReloads(m, msg) ==
  IF msg.type = "WindowSize"
  THEN IF m.state = "ready"
       THEN handleResize([m EXCEPT !.width = msg.width, !.height = msg.height], msg)
       ELSE Res([m EXCEPT !.width = msg.width, !.height = msg.height], << >>)
  ELSE IF msg.type = "Key" /\ msg.key = "q" THEN QuitRes(m)
  ELSE IF m.state # "ready" THEN updateLoading(m, msg)
  ELSE updateReady(m, msg)

Update(m, msg) ==
  IF msg.type = "WindowSize"
  THEN IF m.state = "ready"
       THEN handleResize([m EXCEPT !.width = msg.width, !.height = msg.height], msg)
       ELSE Res([m EXCEPT !.width = msg.width, !.height = msg.height], << >>)
  ELSE IF msg.type = "Key" /\ msg.key = "q" THEN QuitRes(m)
  ELSE IF m.state = "loading" THEN updateLoading(m, msg)
  ELSE IF m.state = "error" THEN updateError(m, msg)
  ELSE updateReady(m, msg)

----------------------------------------------------------------------------
(* The program: the Bubble Tea runtime, the tasks and the environment      *)

VARIABLES
  remote,    \* the archive behind the reference: its index entries, in order
  model,     \* the model the runtime holds
  tasks,     \* bag of the commands that are running
  quit,      \* the program has ended
  crashed,   \* it ended in a run-time panic
  snaps,     \* navigation states saved at the directory entries not yet undone
  restored,  \* << s >> right after a back step that undid the entry saved as s
  arg,       \* the input of a function of the packages called on its own
  out        \* << >>, or what the function called on arg returned

vars == << remote, model, tasks, quit, crashed, snaps, restored, arg, out >>

\* an entry of the index: path, original size, and what detect.IsBinary
\* answers for its content
IndexEntry(path, size, binary) == [path |-> path, size |-> size, binary |-> binary]

\* directories two levels deep, a directory on the third line of the root,
\* and in b a file whose name sorts before the directories beside it
DeepArchive ==
  << IndexEntry(<< "a", "/", "g" >>, 1, FALSE),
     IndexEntry(<< "b", "/", "a" >>, 1, FALSE),
     IndexEntry(<< "b", "/", "c", "/", "z" >>, MaxPreviewBytes, TRUE),
     IndexEntry(<< "b", "/", "d", "/", "w" >>, MaxPreviewBytes + 1, FALSE),
     IndexEntry(<< "c", "/", "y" >>, MaxPreviewBytes + 1, FALSE),
     IndexEntry(<< "x" >>, 1, FALSE) >>

\* a file of exactly the largest previewed size beside a directory that
\* holds a larger one
TwoArchive ==
  << IndexEntry(<< "d", "/", "z" >>, MaxPreviewBytes + 1, TRUE),
     IndexEntry(<< "w" >>, MaxPreviewBytes, FALSE) >>

Archives == { TwoArchive, << >> }

TreeArchives == { DeepArchive, << >> }

Keys == {"up", "down", "left", "backspace", "right", "enter", "tab", "c", "q", "esc", "?"}

NavKeys == {"up", "down", "left", "backspace", "right", "enter"}

\* window sizes: one per number of visible tree lines, none included
WindowSizes ==
  { [height |-> TreeChrome + StatusLines + v, width |-> 80] : v \in 0..MaxVisible }

KeyMsg(k) == [key |-> k, type |-> "Key"]
WindowSizeMsg(sz) == [height |-> sz.height, width |-> sz.width, type |-> "WindowSize"]

\* the key goes to handleTreeKeys
RoutedToTree(m, msg) ==
  /\ msg.type = "Key"
  /\ m.state = "ready"
  /\ ~m.copyDialog.visible
  /\ m.focus = "tree"
  /\ msg.key \notin {"q", "esc", "?", "tab", "c"}

Snapshot(t) ==
  [dir |-> t.currentDir, cursor |-> t.cursor, offset |-> t.offset, history |-> t.history]

EntersDir(m, msg) ==
  /\ RoutedToTree(m, msg)
  /\ msg.key \in {"right", "enter"}
  /\ Selected(m.tree) # << >>
  /\ Selected(m.tree)[1].IsDir

GoesBack(m, msg) ==
  /\ RoutedToTree(m, msg)
  /\ msg.key \in {"left", "backspace"}

\* the saved states after the message: a directory entry saves the state it
\* leaves, a back step drops the last saved state, a resize drops them all
NextSnaps(m, msg) ==
  IF msg.type = "WindowSize" /\ m.state = "ready" THEN << >>
  ELSE IF EntersDir(m, msg) THEN Append(snaps, Snapshot(m.tree))
  ELSE IF GoesBack(m, msg) /\ snaps # << >> THEN SubSeq(snaps, 1, Len(snaps) - 1)
  ELSE snaps

NextRestored(m, msg) ==
  IF GoesBack(m, msg) /\ snaps # << >> THEN << snaps[Len(snaps)] >> ELSE << >>

RECURSIVE SeqToBag(_)
SeqToBag(seq) ==
  IF seq = << >> THEN EmptyBag ELSE SetToBag({Head(seq)}) (+) SeqToBag(Tail(seq))

\* one turn of the event loop: Update processes msg; done is the bag of
\* tasks whose message this is.  When the program ends its tasks are dropped.
\* the runtime takes what Update returned: r.m is the model from now on,
\* left are the tasks running after the commands of r have been started
Returned(r, left, msg) ==
  /\ ~quit
  /\ BagCardinality(left) <= MaxTasks
  /\ model' = r.m
  /\ tasks' = IF r.quit \/ r.panic THEN EmptyBag ELSE left
  /\ quit' = (r.quit \/ r.panic)
  /\ crashed' = r.panic
  /\ snaps' = NextSnaps(model, msg)
  /\ restored' = NextRestored(model, msg)
  /\ UNCHANGED << remote, arg, out >>

Started(r, done, msg) == Returned(r, (tasks (-) done) (+) SeqToBag(r.cmds), msg)

Step(msg, done) == Started(Update(model, msg), done, msg)

Start ==
  /\ model = New
  /\ tasks = SetToBag({LoadTask})
  /\ quit = FALSE
  /\ crashed = FALSE
  /\ snaps = << >>
  /\ restored = << >>
  /\ arg = << >>
  /\ out = << >>

Init == remote \in Archives /\ Start

WindowSize ==
  \E sz \in WindowSizes : Step(WindowSizeMsg(sz), EmptyBag)

\* a key press; the dialog's input takes a character while it is shorter
\* than MaxInput
KeyPressed(k) ==
  /\ ~(model.state = "ready" /\ model.copyDialog.visible /\ k \in Runes
       /\ Len(model.copyDialog.value) >= MaxInput)
  /\ Step(KeyMsg(k), EmptyBag)

KeyPress == \E k \in Keys : KeyPressed(k)

ArchiveLoadedMsg == [index |-> remote, type |-> "ArchiveLoaded"]

ArchiveErrorMsg == [err |-> "load failed", type |-> "ArchiveError"]

\* the entry of the archive with the path
EntryAt(path) == remote[CHOOSE i \in 1..Len(remote) : remote[i].path = path]

FileContentMsg(t) ==
  [path |-> t.path, content |-> [len |-> EntryAt(t.path).size],
   isBinary |-> EntryAt(t.path).binary, type |-> "FileContent"]

FileErrorMsg(t) == [path |-> t.path, err |-> "read failed", type |-> "FileError"]

CopyCompleteMsg(t) == [dest |-> t.dest, type |-> "CopyComplete", source |-> t.path]

CopyErrors == {"read failed", "write failed"}

CopyErrorMsg(t, e) ==
  [err |-> e, dest |-> t.dest, type |-> "CopyError", source |-> t.path]

\* the oldest tick of ScheduleClear fires; the message has expired unless a
\* later message was set, whose own tick is then still running
ClearMessageMsg ==
  [expired |-> (CopiesIn(ScheduleClear, tasks) = 1), type |-> "ClearMessage"]

FetchTasks == { t \in BagToSet(tasks) : t.kind = "fetch" }

CopyTasks == { t \in BagToSet(tasks) : t.kind = "copy" }

\* loadArchive's task ends: the loader returned the index
ArchiveLoaded ==
  /\ BagIn(LoadTask, tasks)
  /\ Step(ArchiveLoadedMsg, SetToBag({LoadTask}))

ArchiveError ==
  /\ BagIn(LoadTask, tasks)
  /\ Step(ArchiveErrorMsg, SetToBag({LoadTask}))

\* the task of loadSelectedPreview ends: ReadFile returned the content
FileContent == \E t \in FetchTasks : Step(FileContentMsg(t), SetToBag({t}))

\* the task of loadSelectedPreview ends: ReadFile failed
FileError == \E t \in FetchTasks : Step(FileErrorMsg(t), SetToBag({t}))

\* the task of executeCopy ends
CopyComplete == \E t \in CopyTasks : Step(CopyCompleteMsg(t), SetToBag({t}))

CopyError ==
  \E t \in CopyTasks, e \in CopyErrors : Step(CopyErrorMsg(t, e), SetToBag({t}))

ClearMessageTick ==
  /\ BagIn(ScheduleClear, tasks)
  /\ Step(ClearMessageMsg, SetToBag({ScheduleClear}))

Next ==
  \/ WindowSize
  \/ KeyPress
  \/ ArchiveLoaded
  \/ ArchiveError
  \/ FileContent
  \/ FileError
  \/ CopyComplete
  \/ CopyError
  \/ ClearMessageTick

Spec == Init /\ [][Next]_vars

\* the tree in use: windows are resized and the navigation keys pressed
NavKeyPress == \E k \in NavKeys : KeyPressed(k)

TreeInit == remote \in TreeArchives /\ Start

TreeNext ==
  \/ WindowSize
  \/ NavKeyPress
  \/ ArchiveLoaded
  \/ FileContent
  \/ FileError
  \/ ClearMessageTick

SpecTree == TreeInit /\ [][TreeNext]_vars

\* the functions of the packages called on their own: the program is not
\* started, arg is the input and out what the call returned
NotStarted ==
  /\ remote = << >>
  /\ model = New
  /\ tasks = EmptyBag
  /\ quit = FALSE
  /\ crashed = FALSE
  /\ snaps = << >>
  /\ restored = << >>

Returns(result) ==
  /\ out = << >>
  /\ out' = result
  /\ UNCHANGED << remote, model, tasks, quit, crashed, snaps, restored, arg >>

\* the paths of the entries an index of the model is made of: files at the
\* root and below directories, and a path that is a directory of others
ListPaths ==
  { << "a", "/", "b", ".", "t", "x", "t" >>,
    << "a", "/", "c", "/", "d", ".", "t", "x", "t" >>,
    << "r", "o", "o", "t", ".", "m", "d" >>,
    << "a" >>,
    << "a", "/", "c" >> }

\* the directory paths listed: the root in its three spellings, directories
\* normalized and not, and one that no entry lies below
ListDirs ==
  { S0, << "." >>, << "/" >>, << "a" >>, << "/", "a", "/" >>,
    << "a", "/", "c" >>, << "z" >> }

\* the indexes of at most n entries with different paths, in any order
RECURSIVE IndexesOf(_)
IndexesOf(n) ==
  IF n = 0 THEN { << >> }
  ELSE IndexesOf(n - 1) \cup
       { Append(ix, IndexEntry(p, Len(p), FALSE)) :
           ix \in { jx \in IndexesOf(n - 1) : Len(jx) = n - 1 },
           p \in ListPaths }

Indexes ==
  { ix \in IndexesOf(MaxEntries) :
      \A i, j \in 1..Len(ix) : i # j => ix[i].path # ix[j].path }

ListInit ==
  /\ NotStarted
  /\ arg \in { [index |-> ix, dir |-> d] : ix \in Indexes, d \in ListDirs }
  /\ out = << >>

CallListDir == Returns([res |-> ListDir(arg.index, arg.dir), fn |-> "ListDir"])

CallBuildTree ==
  \E maxDepth \in 0..MaxDepth :
    Returns([res |-> BuildTree(arg.index, arg.dir, maxDepth), maxDepth |-> maxDepth,
             fn |-> "BuildTree"])

ListNext == CallListDir \/ CallBuildTree

SpecList == ListInit /\ [][ListNext]_vars

\* the paths that are normalized: names, dots and separators in any order
PathChars == {"a", ".", "/"}

RECURSIVE PathsOf(_)
PathsOf(n) ==
  IF n = 0 THEN { S0 }
  ELSE PathsOf(n - 1) \cup
       { Append(p, c) : p \in { q \in PathsOf(n - 1) : Len(q) = n - 1 }, c \in PathChars }

NormalizeInit ==
  /\ NotStarted
  /\ arg \in PathsOf(MaxPath)
  /\ out = << >>

CallNormalize == Returns([res |-> normalizePath(arg), fn |-> "normalizePath"])

\* a path that was normalized is normalized again, as ListDir does with the
\* path BuildTree has normalized and hands to it
CallNormalizeAgain ==
  Returns([res |-> normalizePath(normalizePath(arg)), fn |-> "normalizePath twice"])

NormalizeNext == CallNormalize \/ CallNormalizeAgain

SpecNormalize == NormalizeInit /\ [][NormalizeNext]_vars

\* the bytes of the contents that are classified: null, a control
\* character, tab, a letter, delete, and the two bytes of a rune
Bytes == {0, 1, 9, 65, 127, 195, 169}

RECURSIVE ContentsOf(_)
ContentsOf(n) ==
  IF n = 0 THEN { << >> }
  ELSE ContentsOf(n - 1) \cup
       { Append(c, b) : c \in { d \in ContentsOf(n - 1) : Len(d) = n - 1 }, b \in Bytes }

Run(b, n) == [i \in 1..n |-> b]

\* contents of few bytes, contents with up to three control characters in
\* ten to twenty-one bytes, and contents that reach the end of the sample
Contents ==
  ContentsOf(MaxShort)
    \cup { Run(1, c) \o Run(65, n - c) : c \in 0..3, n \in {10, 11, 20, 21} }
    \cup { Run(65, maxScanSize - n) \o t :
             n \in 0..2, t \in { c \in ContentsOf(2) : c # << >> } }
    \cup { Run(127, c) \o Run(65, maxScanSize - c) \o << 0 >> : c \in {819, 820} }

BinaryInit ==
  /\ NotStarted
  /\ arg \in Contents
  /\ out = << >>

CallIsBinary == Returns([res |-> IsBinary(arg), fn |-> "IsBinary"])

SpecBinary == BinaryInit /\ [][CallIsBinary]_vars

----------------------------------------------------------------------------
(* Properties                                                              *)

Ready == model.state = "ready"

\* the key would go to handleTreeKeys and is one it handles
TreeKeyIn(m, k) == k \in NavKeys /\ RoutedToTree(m, KeyMsg(k))

IsFile(sel) == sel # << >> /\ ~sel[1].IsDir

IsSmallFile(sel) == IsFile(sel) /\ sel[1].Size <= MaxPreviewBytes

IsLargeFile(sel) == IsFile(sel) /\ sel[1].Size > MaxPreviewBytes

IsDirectory(sel) == sel # << >> /\ sel[1].IsDir

\* the preview shows the content delivered for path
ShowsContentOf(p, path) == p.path = path /\ p.state \in {"Text", "Binary"}

\* a fetch whose file is no longer the selection, which is another file
StaleFetches ==
  { t \in FetchTasks :
      Ready /\ IsFile(Selected(model.tree)) /\ Selected(model.tree)[1].Path # t.path }

\* C1 (as stated): when the content of file A arrives while another file B
\* is selected, the preview afterwards does not show A's content.
C1_StaleContentDiscarded ==
  \A t \in StaleFetches :
    ~ShowsContentOf(Update(model, FileContentMsg(t)).m.preview, t.path)

\* the preview p is the one of the model and shows no error for path
LeftAsItWas(p, path) == p = model.preview /\ ~(p.state = "Error" /\ p.path = path)

\* C2 (as stated): when the fetch of file A fails while another file B is
\* selected, the failure is discarded: the preview is left as it was and
\* does not show an error for A.
C2_StaleErrorDiscarded ==
  \A t \in StaleFetches :
    LeftAsItWas(Update(model, FileErrorMsg(t)).m.preview, t.path)

\* the model handed back by the update step for a selection-changing
\* message: a key handled by the tree, or the arrival of the index
SelectionSteps ==
  { Update(model, KeyMsg(k)) : k \in { k \in NavKeys : TreeKeyIn(model, k) } }
    \cup (IF model.state = "loading" /\ BagIn(LoadTask, tasks)
          THEN { Update(model, ArchiveLoadedMsg) } ELSE { })

\* the preview of m is in the state, with the path of the selected entry
PreviewIs(m, state) ==
  m.preview.state = state /\ m.preview.path = Selected(m.tree)[1].Path

\* C3 (as stated): after a selection-changing message, when the selection
\* is a file of at most MaxPreviewBytes, the preview of the returned model
\* is Loading with the path of the selected file.
C3_LoadingAfterSelection ==
  \A r \in SelectionSteps :
    IsSmallFile(Selected(r.m.tree)) => PreviewIs(r.m, "Loading")

\* C4 (as stated): after a selection-changing message, the preview of the
\* returned model is Dir(path) when a directory is selected and
\* TooLarge(path) when a file larger than MaxPreviewBytes is selected.
C4_DirAndTooLargeSynchronous ==
  \A r \in SelectionSteps :
    /\ IsDirectory(Selected(r.m.tree)) => PreviewIs(r.m, "Dir")
    /\ IsLargeFile(Selected(r.m.tree)) => PreviewIs(r.m, "TooLarge")

\* the fetches among the commands an update step returns
RECURSIVE Fetches(_)
Fetches(cmds) ==
  IF cmds = << >> THEN << >>
  ELSE IF Head(cmds).kind = "fetch" THEN << Head(cmds) >> \o Fetches(Tail(cmds))
  ELSE Fetches(Tail(cmds))

\* what the selection left by the step asks for: one fetch of a small file
FetchFor(r) ==
  IF IsSmallFile(Selected(r.m.tree))
  THEN << FetchTask(Selected(r.m.tree)[1].Path) >>
  ELSE << >>

\* the step returned that fetch as its only command
OneFetch(r) == r.cmds = FetchFor(r)

\* the step returned that fetch and no other
FetchAmong(r) == Fetches(r.cmds) = FetchFor(r)

\* the step returned no command
NoCommand(r) == r.cmds = << >>

\* no message but a key handled by the tree or the arrival of the index
\* issues a fetch
OnlySelectionFetches ==
  /\ \A k \in Keys : ~TreeKeyIn(model, k) => Fetches(Update(model, KeyMsg(k)).cmds) = << >>
  /\ \A sz \in WindowSizes : Fetches(Update(model, WindowSizeMsg(sz)).cmds) = << >>
  /\ Fetches(Update(model, ArchiveErrorMsg).cmds) = << >>
  /\ Fetches(Update(model, ClearMessageMsg).cmds) = << >>
  /\ \A t \in FetchTasks :
       /\ Fetches(Update(model, FileContentMsg(t)).cmds) = << >>
       /\ Fetches(Update(model, FileErrorMsg(t)).cmds) = << >>
  /\ \A t \in CopyTasks :
       /\ Fetches(Update(model, CopyCompleteMsg(t)).cmds) = << >>
       /\ \A e \in CopyErrors : Fetches(Update(model, CopyErrorMsg(t, e)).cmds) = << >>
  /\ model.state # "loading" => Fetches(Update(model, ArchiveLoadedMsg).cmds) = << >>

\* C5 (as stated): every key handled by the tree issues exactly one fetch,
\* of the selected file, when the selection it leaves is a file of at most
\* MaxPreviewBytes, and none otherwise; no other message issues a fetch.
C5_FetchPerNavigationKey ==
  /\ \A k \in NavKeys :
       TreeKeyIn(model, k) =>
         OneFetch(Update(model, KeyMsg(k)))
  /\ OnlySelectionFetches

\* the key is a back key on which Back does not move: the root directory
\* with an empty history
BackRefused(m, k) == k \in {"left", "backspace"} /\ ~Back(m.tree).ok

\* C5 (amended): a key handled by the tree issues exactly one fetch, of the
\* selected file, when the selection it leaves is a file of at most
\* MaxPreviewBytes, and none when it is a directory, a larger file or
\* nothing, except that a back key on which Back does not move issues
\* nothing whatever is selected; the arrival of the index does as the keys
\* do, and no other message issues a fetch.
C5_FetchPerNavigationKeyAmended ==
  /\ \A k \in NavKeys :
       TreeKeyIn(model, k) =>
         IF BackRefused(model, k) THEN NoCommand(Update(model, KeyMsg(k)))
         ELSE OneFetch(Update(model, KeyMsg(k)))
  /\ (model.state = "loading" /\ BagIn(LoadTask, tasks)) =>
       FetchAmong(Update(model, ArchiveLoadedMsg))
  /\ OnlySelectionFetches

\* a file of exactly MaxPreviewBytes is selected in the tree and its fetch,
\* issued by the key that selected it, is running
C5_Witness ==
  /\ Ready /\ model.focus = "tree" /\ ~model.copyDialog.visible
  /\ IsSmallFile(Selected(model.tree))
  /\ Selected(model.tree)[1].Size = MaxPreviewBytes
  /\ BagIn(FetchTask(Selected(model.tree)[1].Path), tasks)

\* C6: right after a back step that undoes a directory entry, the current
\* directory, the cursor, the scroll offset and the history are those that
\* held immediately before that entry, at every depth.
C6_HistoryRoundTrip ==
  restored # << >> => Ready /\ Snapshot(model.tree) = restored[1]

\* back from the second of two entries restored a scrolled listing with the
\* cursor off its first line
C6_Witness ==
  /\ restored # << >>
  /\ Snapshot(model.tree) = restored[1]
  /\ Len(restored[1].history) = 1
  /\ restored[1].cursor > 0
  /\ restored[1].offset > 0

\* C7: the cursor is an index of the listing whenever the listing is not
\* empty, Selected returns the entry at the cursor, it returns none on an
\* empty listing, and no step indexes the listing out of range.
C7_CursorBounds ==
  /\ ~crashed
  /\ ~SelectedPanics(model.tree)
  /\ model.tree.entries # << >> =>
       /\ model.tree.cursor \in 0..(Len(model.tree.entries) - 1)
       /\ Selected(model.tree) = << model.tree.entries[model.tree.cursor + 1] >>
  /\ model.tree.entries = << >> => Selected(model.tree) = << >>

\* the cursor is on the last entry of a directory that was entered
C7_Witness ==
  /\ Ready
  /\ model.tree.history # << >>
  /\ Len(model.tree.entries) >= 2
  /\ model.tree.cursor = Len(model.tree.entries) - 1

\* the tree differs from t in the cursor and the scroll offset at most
SameListing(t, u) == [u EXCEPT !.cursor = t.cursor, !.offset = t.offset] = t

\* u is t with the cursor one entry up, or t itself at the first entry
MovedUp(t, u) ==
  /\ SameListing(t, u)
  /\ IF t.cursor > 0 THEN u.cursor = t.cursor - 1 ELSE u = t

\* d is t with the cursor one entry down, or t itself at the last entry
MovedDown(t, d) ==
  /\ SameListing(t, d)
  /\ IF t.cursor < Len(t.entries) - 1 THEN d.cursor = t.cursor + 1 ELSE d = t

\* C8: CursorUp lowers the cursor by one when it is above 0 and changes
\* nothing otherwise; CursorDown raises it by one when it is below the last
\* index and changes nothing otherwise; neither changes the directory, the
\* listing or the history.
C8_CursorMoves ==
  /\ MovedUp(model.tree, CursorUp(model.tree))
  /\ MovedDown(model.tree, CursorDown(model.tree))

\* the cursor went down twice, to the last of three entries, and the
\* window of two lines followed it
C8_Witness ==
  /\ Ready
  /\ Len(model.tree.entries) = 3
  /\ model.tree.cursor = 2
  /\ model.tree.offset = 1
  /\ visibleLines(model.tree) = 2

\* C9: whenever the tree has a positive number of visible lines, the scroll
\* offset is at least 0 and the cursor lies in the window that starts at it.
C9_ScrollWindow ==
  visibleLines(model.tree) > 0 =>
    /\ 0 <= model.tree.offset
    /\ model.tree.offset <= model.tree.cursor
    /\ model.tree.cursor <= model.tree.offset + visibleLines(model.tree) - 1

\* a directory was entered from the second entry while no line was visible,
\* and the window then grew to one line: the saved cursor lies outside the
\* window that starts at the saved offset, and the cursor of the entered
\* directory lies inside its own
C9_Witness ==
  /\ visibleLines(model.tree) = 1
  /\ model.tree.history # << >>
  /\ model.tree.history[Len(model.tree.history)].cursor = 1
  /\ model.tree.history[Len(model.tree.history)].offset = 0
  /\ model.tree.cursor = model.tree.offset

\* C10: Enter with a file selected, or with an empty listing, returns false
\* and leaves the tree as it was: directory, listing, cursor, scroll offset
\* and history.
C10_EnterOnFile ==
  ~IsDirectory(Selected(model.tree)) =>
    Enter(model.tree) = [tree |-> model.tree, ok |-> FALSE]

\* a file inside an entered directory is selected in the tree, and the
\* fetch issued for it is running
C10_Witness ==
  /\ Ready /\ model.focus = "tree"
  /\ IsFile(Selected(model.tree))
  /\ model.tree.history # << >>
  /\ BagIn(FetchTask(Selected(model.tree)[1].Path), tasks)
  /\ Enter(model.tree) = [tree |-> model.tree, ok |-> FALSE]

\* the prefix of the paths below the directory
DirPrefix(dir) == IF dir = S0 THEN S0 ELSE dir \o << "/" >>

\* the entries of the index that lie below the directory
Below(index, dir) ==
  { i \in 1..Len(index) :
      /\ HasPrefix(index[i].path, DirPrefix(dir))
      /\ Len(index[i].path) > Len(DirPrefix(dir)) }

\* the component of the path that follows the directory
ChildSegment(path, dir) ==
  SubSeq(path, Len(DirPrefix(dir)) + 1,
         Len(DirPrefix(dir)) +
           (CHOOSE n \in 0..(Len(path) - Len(DirPrefix(dir))) :
              /\ \A i \in 1..n : path[Len(DirPrefix(dir)) + i] # "/"
              /\ \/ n = Len(path) - Len(DirPrefix(dir))
                 \/ path[Len(DirPrefix(dir)) + n + 1] = "/"))

\* e is a child of the directory: its path is the directory's followed by
\* its name, a file is an entry of the index, a directory has entries below
IsChild(index, dir, e) ==
  /\ e.Path = DirPrefix(dir) \o e.Name
  /\ \E i \in Below(index, dir) : ChildSegment(index[i].path, dir) = e.Name
  /\ IF e.IsDir THEN Below(index, e.Path) # {}
     ELSE \E i \in 1..Len(index) : index[i].path = e.Path /\ index[i].size = e.Size

\* a comes before b: a directory before a file, and by name within a kind
ComesBefore(a, b) ==
  \/ a.IsDir /\ ~b.IsDir
  \/ a.IsDir = b.IsDir /\ StrLess(a.Name, b.Name)

\* the entries are the children of the directory, each once, directories
\* first and then by name
IsListingOf(index, dir, entries) ==
  /\ \A i \in 1..Len(entries) : IsChild(index, dir, entries[i])
  /\ \A j \in Below(index, dir) :
       \E i \in 1..Len(entries) : entries[i].Name = ChildSegment(index[j].path, dir)
  /\ \A i, j \in 1..Len(entries) : i < j => ComesBefore(entries[i], entries[j])

\* u is t after the selected directory was entered
EnteredFrom(t, u) ==
  /\ u.history = Append(t.history,
                        [dir |-> t.currentDir, cursor |-> t.cursor, offset |-> t.offset])
  /\ u.currentDir = Selected(t)[1].Path
  /\ u.cursor = 0
  /\ u.offset = 0
  /\ IsListingOf(t.index, u.currentDir, u.entries)
  /\ [u EXCEPT !.history = t.history, !.currentDir = t.currentDir,
               !.cursor = t.cursor, !.offset = t.offset, !.entries = t.entries] = t

\* C11: Enter with a directory selected returns true, appends one frame
\* holding the directory, cursor and scroll offset it was called with to the
\* history and leaves the earlier frames as they were, makes the selected
\* directory the current one, sets cursor and scroll offset to 0, and lists
\* the children of that directory, directories first and then by name.
C11_EnterOnDirectory ==
  IsDirectory(Selected(model.tree)) =>
    /\ Enter(model.tree).ok
    /\ EnteredFrom(model.tree, Enter(model.tree).tree)

\* directory b was entered from the second line of the root: the frame on
\* the history holds that line, and the listing shows the two directories
\* of b before its file
C11_Witness ==
  /\ Ready
  /\ model.tree.currentDir = << "b" >>
  /\ model.tree.history = << [dir |-> S0, cursor |-> 1, offset |-> 1] >>
  /\ model.tree.cursor = 0
  /\ Len(model.tree.entries) = 3
  /\ model.tree.entries[1].IsDir /\ model.tree.entries[2].IsDir
  /\ model.tree.entries[3].Name = << "a" >>

\* C12: Back returns false exactly when the current directory is the root
\* and the history is empty, and then leaves the tree as it was: directory,
\* listing, cursor, scroll offset and history; in every other state it
\* returns true, and a history that was not empty is one frame shorter.
C12_BackReturn ==
  /\ Back(model.tree).ok = ~(model.tree.currentDir = S0 /\ model.tree.history = << >>)
  /\ ~Back(model.tree).ok => Back(model.tree).tree = model.tree
  /\ model.tree.history # << >> =>
       Len(Back(model.tree).tree.history) = Len(model.tree.history) - 1

\* a back step has just undone the only directory entry and restored the
\* root with the cursor on its second line; a further Back is refused
C12_Witness ==
  /\ Ready
  /\ restored # << >>
  /\ Len(restored[1].history) = 0
  /\ model.tree.currentDir = S0
  /\ model.tree.history = << >>
  /\ model.tree.cursor = 1
  /\ ~Back(model.tree).ok

\* the messages the runtime can hand to Update, whether or not a task that
\* delivers them is running: keys, resizes, the results of the load, of a
\* fetch and of a copy of any file, and the tick of the status bar
FilePaths == { remote[i].path : i \in 1..Len(remote) }

AnyMessages ==
  { KeyMsg(k) : k \in Keys }
    \cup { WindowSizeMsg(sz) : sz \in WindowSizes }
    \cup { ArchiveLoadedMsg, ArchiveErrorMsg, ClearMessageMsg }
    \cup { FileContentMsg(FetchTask(p)) : p \in FilePaths }
    \cup { FileErrorMsg(FetchTask(p)) : p \in FilePaths }
    \cup { CopyCompleteMsg(CopyTask(p, << "c" >>)) : p \in FilePaths }
    \cup { CopyErrorMsg(CopyTask(p, << "c" >>), e) : p \in FilePaths, e \in CopyErrors }

\* the top-level state after Update returned r for msg on the model m
TopLevelStep(m, msg, r) ==
  /\ r.m.state \in {"loading", "ready", "error"}
  /\ r.m.state = "ready" /\ m.state # "ready" =>
       m.state = "loading" /\ msg.type = "ArchiveLoaded"
  /\ r.m.state = "error" /\ m.state # "error" =>
       m.state = "loading" /\ msg.type = "ArchiveError"
  /\ m.state = "loading" /\ msg.type = "ArchiveLoaded" => r.m.state = "ready"
  /\ m.state = "loading" /\ msg.type = "ArchiveError" => r.m.state = "error"
  /\ m.state # "loading" => r.m.state = m.state
  /\ m.state = "error" /\ msg.type = "Key" => r.m = m /\ r.cmds = << >> /\ ~r.panic

\* C13: the engine is Loading until the result of the load is processed;
\* it becomes Ready only by ArchiveLoaded processed while Loading and Error
\* only by ArchiveLoadError processed while Loading; no message changes the
\* top-level state once it is Ready or Error; and in Error a key changes
\* nothing in the model and issues nothing: all it can do is quit.
C13_TopLevelStates ==
  /\ BagIn(LoadTask, tasks) => model.state = "loading"
  /\ \A msg \in AnyMessages : TopLevelStep(model, msg, Update(model, msg))

\* the load failed and the program is still running in Error, with the
\* largest window and no task left; there escape quits and the up key does
\* not
C13_Witness ==
  /\ model.state = "error"
  /\ ~quit
  /\ model.height = TreeChrome + StatusLines + MaxVisible
  /\ tasks = EmptyBag
  /\ Update(model, KeyMsg("esc")).quit
  /\ ~Update(model, KeyMsg("up")).quit

\* the key went to the dialog and nowhere else: the program goes on, help
\* and focus are as they were, and so is the navigation state of the tree
DialogKeyOnly(m, k, r) ==
  /\ ~r.quit
  /\ r.m.showHelp = m.showHelp
  /\ r.m.focus = m.focus
  /\ Snapshot(r.m.tree) = Snapshot(m.tree)
  /\ k = "esc" => ~r.m.copyDialog.visible

\* C14 (as stated): while the copy dialog is visible every key press goes to
\* the dialog: escape hides it, and no key quits the program, toggles help
\* or focus, or changes the current directory, cursor, scroll offset or
\* history of the tree.
C14_DialogKeysRouted ==
  Ready /\ model.copyDialog.visible =>
    \A k \in Keys : DialogKeyOnly(model, k, Update(model, KeyMsg(k)))

\* name is what follows the last "/" of path, or all of it
IsBaseName(name, path) ==
  /\ name # S0
  /\ \A i \in 1..Len(name) : name[i] # "/"
  /\ \/ name = path
     \/ path = SubSeq(path, 1, Len(path) - Len(name) - 1) \o << "/" >> \o name

\* the copy tasks among the commands an update step returns
Copies(cmds) == SelectSeq(cmds, LAMBDA c : c.kind = "copy")

\* what the copy key did on the model m with the dialog hidden
StartedCopy(m, r) ==
  /\ ~r.quit
  /\ IF IsFile(Selected(m.tree))
     THEN /\ r.m.copyDialog.visible
          /\ r.m.copyDialog.sourcePath = Selected(m.tree)[1].Path
          /\ IsBaseName(r.m.copyDialog.value, Selected(m.tree)[1].Path)
     ELSE /\ ~r.m.copyDialog.visible
          /\ r.m.statusBar.message # << >>
          /\ r.cmds = << ScheduleClear >>
  /\ Copies(r.cmds) = << >>
  /\ r.m.tree = m.tree
  /\ r.m.preview = m.preview

\* C15: the copy key with the dialog hidden, under either focus, opens the
\* dialog only when a file is selected, with the path of that file as the
\* source and its base name as the destination input; with a directory
\* selected or an empty listing the dialog stays hidden and a status message
\* is set that a tick will clear; either way no copy task is issued and the
\* navigation and preview state are as they were.
C15_StartCopy ==
  Ready /\ ~model.copyDialog.visible =>
    StartedCopy(model, Update(model, KeyMsg("c")))

\* the copy key was refused on directory d and then, with the preview
\* focused, opened the dialog on the file d/z: the refusal is still on the
\* status bar, and the destination input holds z
C15_Witness ==
  /\ Ready
  /\ model.focus = "preview"
  /\ model.copyDialog.visible
  /\ model.copyDialog.sourcePath = << "d", "/", "z" >>
  /\ model.copyDialog.value = << "z" >>
  /\ model.statusBar.message = << "Select a file to copy" >>
  /\ BagIn(ScheduleClear, tasks)

\* the enter key on a visible dialog
Confirms == Ready /\ model.copyDialog.visible

\* what the enter key did on the dialog of m with an empty destination
RefusedCopy(m, r) ==
  /\ ~r.quit
  /\ Copies(r.cmds) = << >>
  /\ r.cmds = << ScheduleClear >>
  /\ r.m.statusBar.message # << >>
  /\ r.m.copyDialog = m.copyDialog

\* C16: the enter key on a visible dialog whose destination input is empty
\* issues no copy task, so nothing is written; it sets a status message that
\* a tick will clear, and the dialog stays visible with its source path and
\* destination input as they were.
C16_EmptyDestination ==
  Confirms /\ model.copyDialog.value = S0 =>
    RefusedCopy(model, Update(model, KeyMsg("enter")))

\* the destination of the dialog opened on w was deleted and the enter key
\* refused: the dialog is still open, the refusal is on the status bar, and
\* no copy is running
C16_Witness ==
  /\ Confirms
  /\ model.copyDialog.sourcePath = << "w" >>
  /\ model.copyDialog.value = S0
  /\ model.statusBar.message = << "Destination path required" >>
  /\ BagIn(ScheduleClear, tasks)
  /\ CopyTasks = {}

\* C17 (as stated): the enter key on a visible dialog whose destination
\* input is not empty issues exactly one copy task, for the source path and
\* the destination, and the dialog is not visible in the model that update
\* step returns.
C17_CopyClosesDialog ==
  Confirms /\ model.copyDialog.value # S0 =>
    /\ Update(model, KeyMsg("enter")).cmds =
         << CopyTask(model.copyDialog.sourcePath, model.copyDialog.value) >>
    /\ ~Update(model, KeyMsg("enter")).m.copyDialog.visible

\* the messages the running copy tasks can deliver, and the running fetches
CopyMessages ==
  { CopyCompleteMsg(t) : t \in CopyTasks }
    \cup { CopyErrorMsg(t, e) : t \in CopyTasks, e \in CopyErrors }

FetchMessages ==
  { FileContentMsg(t) : t \in FetchTasks } \cup { FileErrorMsg(t) : t \in FetchTasks }

\* the step that returned r left the top-level state Ready and the tree,
\* the focus and the preview of m as they were
CopyFrame(m, r) ==
  /\ ~r.quit
  /\ r.m.state = "ready"
  /\ r.m.tree = m.tree
  /\ r.m.focus = m.focus
  /\ r.m.preview = m.preview

\* the parts of the model the two results are about
Parts(m) ==
  [tree |-> m.tree, state |-> m.state, preview |-> m.preview, copyDialog |-> m.copyDialog,
   focus |-> m.focus]

\* the result f of a fetch and the result c of a copy in both orders: the
\* preview is what f alone leaves, the dialog and the status bar after c
\* are what c alone leaves, and the two orders end with the same top-level
\* state, tree, focus, preview and dialog (the status bar shows the message
\* of the result processed last, a failed fetch or the copy)
Independent(m, f, c) ==
  /\ Update(Update(m, c).m, f).m.preview = Update(m, f).m.preview
  /\ Update(Update(m, f).m, c).m.preview = Update(m, f).m.preview
  /\ Update(Update(m, f).m, c).m.copyDialog = Update(m, c).m.copyDialog
  /\ Update(Update(m, f).m, c).m.statusBar = Update(m, c).m.statusBar
  /\ Parts(Update(Update(m, f).m, c).m) = Parts(Update(Update(m, c).m, f).m)

C19_CopyResultKeepsDialog ==
  Ready =>
    \A c \in CopyMessages : Update(model, c).m.copyDialog = model.copyDialog

\* the failure of the fetch t on the model m: the preview is Error with the
\* path and the message, the top-level state is Ready and the tree as it was
FailedLocally(m, t, r) ==
  /\ ~r.quit
  /\ r.m.state = "ready"
  /\ r.m.tree = m.tree
  /\ r.m.preview.state = "Error"
  /\ r.m.preview.path = t.path
  /\ r.m.preview.errMsg = FileErrorMsg(t).err

\* the content of the fetch t has replaced what the preview showed: Binary
\* or Text with the path of t, and no error
Recovered(t, r) ==
  /\ r.m.state = "ready"
  /\ r.m.preview.state = (IF EntryAt(t.path).binary THEN "Binary" ELSE "Text")
  /\ r.m.preview.path = t.path
  /\ r.m.preview.errMsg = ""

\* C20: when the fetch of a file fails, the preview becomes Error with the
\* path and the message of the failure, the top-level state stays Ready and
\* the navigation state is as it was; and from the Error preview the
\* content of a file selected afterwards, once fetched, replaces the error
\* with Text or Binary for that file.  (The path a fetch is running for is
\* taken as the loading path.)
C20_PreviewFailureLocal ==
  Ready =>
    \A t \in FetchTasks :
      /\ FailedLocally(model, t, Update(model, FileErrorMsg(t)))
      /\ model.preview.state = "Error" =>
           Recovered(t, Update(model, FileContentMsg(t)))

\* the fetch of a file failed, and then the content of b/c/z, selected
\* after it, arrived: the failure is still on the status bar, the preview
\* shows the binary file, and the engine is Ready
C20_Witness ==
  /\ Ready
  /\ model.statusBar.isError
  /\ model.statusBar.message = << "read failed" >>
  /\ model.preview.state = "Binary"
  /\ model.preview.path = << "b", "/", "c", "/", "z" >>
  /\ IsFile(Selected(model.tree))
  /\ Selected(model.tree)[1].Path = model.preview.path

\* the key is the focus-toggle key and reaches handleKeys
TogglesFocus(m, msg) ==
  /\ msg.type = "Key"
  /\ msg.key = "tab"
  /\ m.state = "ready"
  /\ ~m.copyDialog.visible

\* the step that returned r moved the focus of m to the other pane and left
\* the tree, the preview and the dialog as they were but for the mark
Toggled(m, r) ==
  /\ ~r.quit
  /\ r.cmds = << >>
  /\ r.m.focus = (IF m.focus = "tree" THEN "preview" ELSE "tree")
  /\ [r.m.tree EXCEPT !.focused = m.tree.focused] = m.tree
  /\ [r.m.preview EXCEPT !.focused = m.preview.focused] = m.preview
  /\ r.m.copyDialog = m.copyDialog

\* C21: in Ready with the copy dialog hidden the focus-toggle key moves the
\* focus to the other pane and changes nothing in the navigation state, the
\* preview state or the copy dialog; no other message changes the focus,
\* which is Tree until the first toggle; and in every Ready state exactly
\* one of the tree and the preview is marked focused, the one the focus
\* names.
C21_FocusToggle ==
  /\ model.focus \in {"tree", "preview"}
  /\ ~Ready => model.focus = "tree"
  /\ Ready => /\ model.tree.focused = (model.focus = "tree")
              /\ model.preview.focused = (model.focus = "preview")
  /\ \A msg \in AnyMessages :
       IF TogglesFocus(model, msg) THEN Toggled(model, Update(model, msg))
       ELSE Update(model, msg).m.focus = model.focus

\* the focus was moved to the preview with the cursor of the tree on its
\* second line: the preview is marked focused and the tree is not
C21_Witness ==
  /\ Ready
  /\ model.focus = "preview"
  /\ model.preview.focused
  /\ ~model.tree.focused
  /\ model.tree.cursor = 1

\* no two entries of the listing have the same name
NamesDistinct(entries) ==
  \A i, j \in 1..Len(entries) : i # j => entries[i].Name # entries[j].Name

\* the entries of the index that lie in the subdirectory s of the directory
InSubdir(index, dir, s) ==
  { i \in Below(index, dir) :
      /\ ChildSegment(index[i].path, dir) = s
      /\ index[i].path # DirPrefix(dir) \o s }

\* every subdirectory of the directory with entries in it, however many,
\* has at most one directory node in the listing, and exactly one unless an
\* entry of the index has the path of the subdirectory itself
OneNodePerSubdir(index, dir, entries) ==
  \A k \in Below(index, dir) :
    InSubdir(index, dir, ChildSegment(index[k].path, dir)) # {} =>
      /\ Cardinality({ i \in 1..Len(entries) :
                         /\ entries[i].IsDir
                         /\ entries[i].Name = ChildSegment(index[k].path, dir) }) <= 1
      /\ (\A i \in 1..Len(index) :
             index[i].path # DirPrefix(dir) \o ChildSegment(index[k].path, dir)) =>
           \E i \in 1..Len(entries) :
             /\ entries[i].IsDir
             /\ entries[i].Name = ChildSegment(index[k].path, dir)

RECURSIVE TreeDistinct(_)
\* no two children of the node, or of a node below it, have the same name
TreeDistinct(node) ==
  /\ NamesDistinct(node.Children)
  /\ \A i \in 1..Len(node.Children) : TreeDistinct(node.Children[i])

RECURSIVE FileCount(_, _), FileCountIn(_, _, _)
\* the number of file nodes with the path in the tree below the node
FileCount(node, path) ==
  IF node.IsDir THEN FileCountIn(node.Children, path, 1)
  ELSE IF node.Path = path THEN 1 ELSE 0

\* the same in the children from the i-th on
FileCountIn(children, path, i) ==
  IF i > Len(children) THEN 0
  ELSE FileCount(children[i], path) + FileCountIn(children, path, i + 1)

RECURSIVE Reaches(_, _)
\* the file node of the path is reached from the node through one directory
\* node for each segment of the path in between
Reaches(node, path) ==
  IF node.IsDir
  THEN /\ HasPrefix(path, DirPrefix(node.Path))
       /\ Len(path) > Len(DirPrefix(node.Path))
       /\ \E i \in 1..Len(node.Children) :
            /\ node.Children[i].Name = ChildSegment(path, node.Path)
            /\ node.Children[i].Path =
                 DirPrefix(node.Path) \o ChildSegment(path, node.Path)
            /\ Reaches(node.Children[i], path)
  ELSE node.Path = path

RECURSIVE FilesAreEntries(_, _)
\* every file node of the tree below the node is an entry of the index
FilesAreEntries(node, index) ==
  IF node.IsDir
  THEN \A i \in 1..Len(node.Children) : FilesAreEntries(node.Children[i], index)
  ELSE \E i \in 1..Len(index) : index[i].path = node.Path

\* the tree holds the entries of the index below the directory, each once
ListsAll(index, dir, tree) ==
  /\ \A i \in Below(index, dir) :
       /\ FileCount(tree, index[i].path) = 1
       /\ Reaches(tree, index[i].path)
  /\ FilesAreEntries(tree, index)

\* C23 (as stated): for every index and every directory path d, in the tree
\* BuildTree returns for d without a depth limit every entry below d is
\* one file node with the path of the entry, reached through one directory
\* node per segment in between, whether or not the path of an entry is a
\* directory of another; and every file node is an entry.
C23_TreeComplete ==
  (out # << >> /\ out.fn = "BuildTree" /\ out.maxDepth = 0) =>
    ListsAll(arg.index, normalizePath(arg.dir), out.res)

\* the i-th entry of the index is the first below the directory whose
\* path goes on with the segment s
FirstWith(index, dir, s, i) ==
  /\ i \in Below(index, dir)
  /\ ChildSegment(index[i].path, dir) = s
  /\ \A j \in Below(index, dir) :
       j < i => ChildSegment(index[j].path, dir) # s

\* e is the node of its segment: a file node, the entry itself, when the
\* segment is all that follows the prefix, and else a directory node with
\* the path of the directory followed by the segment
NodeFor(index, dir, e) ==
  \E i \in 1..Len(index) :
    /\ FirstWith(index, dir, e.Name, i)
    /\ IF index[i].path = DirPrefix(dir) \o e.Name
       THEN ~e.IsDir /\ e.Path = index[i].path /\ e.Size = index[i].size
       ELSE e.IsDir /\ e.Path = DirPrefix(dir) \o e.Name

\* res is the listing of the directory: one node for each first segment,
\* in strictly ascending order of the names, which leaves one order only
ListingOf(index, dir, res) ==
  /\ \A k \in 1..Len(res) : NodeFor(index, dir, res[k])
  /\ \A i \in Below(index, dir) :
       \E k \in 1..Len(res) : res[k].Name = ChildSegment(index[i].path, dir)
  /\ \A k, l \in 1..Len(res) : k < l => StrLess(res[k].Name, res[l].Name)
  /\ Below(index, dir) = {} => res = << >>

\* the entries a/b.txt, a/c/d.txt and root.md, in any order
IsExample(index) ==
  { index[i].path : i \in 1..Len(index) } =
    { << "a", "/", "b", ".", "t", "x", "t" >>,
      << "a", "/", "c", "/", "d", ".", "t", "x", "t" >>,
      << "r", "o", "o", "t", ".", "m", "d" >> }

\* the names and kinds of a listing
Shape(res) == [k \in 1..Len(res) |-> << res[k].Name, res[k].IsDir >>]

\* C24: ListDir returns one node for each different first segment that
\* follows the prefix of the directory in the paths of the entries: a file
\* node when the segment is all that follows, a directory node with the
\* path of the directory followed by the segment otherwise; the listing is
\* in ascending order of the names, which are all different, so that the
\* same inputs give the same listing; and it is empty when no entry has the
\* prefix.  Of the entries a/b.txt, a/c/d.txt and root.md the root lists
\* the directory a and the file root.md, and a lists the file b.txt and the
\* directory c.
C24_ListDirectory ==
  (out # << >> /\ out.fn = "ListDir") =>
    /\ ListingOf(arg.index, normalizePath(arg.dir), out.res)
    /\ (IsExample(arg.index) /\ normalizePath(arg.dir) = S0) =>
         Shape(out.res) = << << << "a" >>, TRUE >>,
                            << << "r", "o", "o", "t", ".", "m", "d" >>, FALSE >> >>
    /\ (IsExample(arg.index) /\ normalizePath(arg.dir) = << "a" >>) =>
         Shape(out.res) = << << << "b", ".", "t", "x", "t" >>, FALSE >>,
                            << << "c" >>, TRUE >> >>

\* the directory /a/ of the three entries was listed: the file b.txt and
\* then the directory c, with the path a/c
C24_Witness ==
  /\ out # << >>
  /\ out.fn = "ListDir"
  /\ IsExample(arg.index)
  /\ arg.dir = << "/", "a", "/" >>
  /\ Len(out.res) = 2
  /\ ~out.res[1].IsDir
  /\ out.res[2].IsDir
  /\ out.res[2].Path = << "a", "/", "c" >>

\* the path has a segment "." at i
DotSegmentAt(p, i) ==
  /\ p[i] = "."
  /\ i = 1 \/ p[i - 1] = "/"
  /\ i = Len(p) \/ p[i + 1] = "/"

\* the path neither begins nor ends with a separator and has no empty
\* segment and no segment "."
IsNormal(p) ==
  p # S0 =>
    /\ p[1] # "/"
    /\ p[Len(p)] # "/"
    /\ \A i \in 1..(Len(p) - 1) : ~(p[i] = "/" /\ p[i + 1] = "/")
    /\ \A i \in 1..Len(p) : ~DotSegmentAt(p, i)

\* the path begins with the segment ".."
BeginsWithDotDot(p) ==
  /\ HasPrefix(p, << ".", "." >>)
  /\ Len(p) = 2 \/ p[3] = "/"

\* C25: normalizing what normalizePath returned gives it back, for every
\* path; "", "." and "/" give the empty string; the result neither begins
\* nor ends with a separator and has no empty segment and no segment ".";
\* and a path that begins with ".." once it is cleaned is returned as
\* cleaned: "../a" gives "../a".
C25_Normalize ==
  out # << >> =>
    IF out.fn = "normalizePath"
    THEN /\ normalizePath(out.res) = out.res
         /\ arg \in { S0, << "." >>, << "/" >> } => out.res = S0
         /\ IsNormal(out.res)
         /\ BeginsWithDotDot(PathClean(arg)) => out.res = PathClean(arg)
         /\ arg = << ".", ".", "/", "a" >> => out.res = arg
    ELSE out.res = normalizePath(arg)

\* a rooted path with a "." segment and a trailing separator was
\* normalized to its one name
C25_Witness ==
  /\ out # << >>
  /\ out.fn = "normalizePath"
  /\ arg = << "/", ".", "/", "a", "/" >>
  /\ out.res = << "a" >>

\* the places of the content that are in the sample
Scanned(content) ==
  1..(IF Len(content) < maxScanSize THEN Len(content) ELSE maxScanSize)

\* printable ASCII, tab, newline and carriage return
IsPlain(b) == b \in 32..126 \/ b \in {9, 10, 13}

\* the control bytes in the sample
Controls(content) ==
  { i \in Scanned(content) : content[i] \in ((0..31) \ {9, 10, 13}) \cup {127} }

\* C26: IsBinary returns false for empty content; true when a null byte is
\* among the first 8192 bytes, and a null byte after them does not make
\* plain content binary; false when those bytes are printable ASCII, tab,
\* newline and carriage return only; and when they have no null byte and
\* are valid UTF-8, true exactly when ten times the number of control bytes
\* among them is more than their number.
C26_IsBinary ==
  out # << >> =>
    /\ arg = << >> => ~out.res
    /\ (\E i \in Scanned(arg) : arg[i] = 0) => out.res
    /\ (\A i \in Scanned(arg) : IsPlain(arg[i])) => ~out.res
    /\ ((\A i \in Scanned(arg) : arg[i] # 0) /\ utf8Valid(Sample(arg))) =>
         (out.res <=> Cardinality(Controls(arg)) * 10 > Cardinality(Scanned(arg)))

\* content of 8192 letters and a null byte after them was classified as
\* text
C26_Witness ==
  /\ out # << >>
  /\ Len(arg) = maxScanSize + 1
  /\ arg[maxScanSize + 1] = 0
  /\ \A i \in 1..maxScanSize : arg[i] = 65
  /\ ~out.res

\* the number of segments of the path of a directory, 0 for the root
Segments(dir) ==
  IF dir = S0 THEN 0 ELSE Cardinality({ i \in 1..Len(dir) : dir[i] = "/" }) + 1

\* a is the directory dir or one above it
IsAncestor(a, dir) == a = S0 \/ a = dir \/ HasPrefix(dir, a \o << "/" >>)

\* C27: in every state of the tree the history has as many frames as the
\* path of the current directory has segments, and the frame at height i,
\* counted from 0 at the bottom, holds the directory above the current one
\* that has i segments; so the history is empty at the root only, and Back
\* never finds an empty history in another directory.
C27_HistoryDepth ==
  /\ Len(model.tree.history) = Segments(model.tree.currentDir)
  /\ \A i \in 1..Len(model.tree.history) :
       /\ Segments(model.tree.history[i].dir) = i - 1
       /\ IsAncestor(model.tree.history[i].dir, model.tree.currentDir)
       /\ model.tree.history[i].dir # model.tree.currentDir
  /\ model.tree.history = << >> <=> model.tree.currentDir = S0
  /\ ~(Len(model.tree.history) = 0 /\ model.tree.currentDir # S0)

\* the tree is two directories down, in b/d, entered from the second line
\* of b: the two frames hold the root and b
C27_Witness ==
  /\ Ready
  /\ model.tree.currentDir = << "b", "/", "d" >>
  /\ Len(model.tree.history) = 2
  /\ model.tree.history[1].dir = S0
  /\ model.tree.history[2].dir = << "b" >>
  /\ model.tree.history[2].cursor = 1

\* C28 (as stated): in every state of the preview the language is set only
\* when the state is Text and the error message only when the state is
\* Error; so Binary, loaded after a text file of a known language was shown,
\* has no language.
C28_PreviewVariant ==
  /\ model.preview.language # "" => model.preview.state = "Text"
  /\ model.preview.errMsg # "" => model.preview.state = "Error"

\* the scroll offset Back leaves for the frame f in a window of vis lines:
\* the saved one, moved no further than the cursor needs to be visible
RestoredOffset(f, vis) ==
  IF vis <= 0 THEN f.offset
  ELSE IF f.cursor < f.offset THEN f.cursor
  ELSE IF f.cursor > f.offset + vis - 1 THEN f.cursor - vis + 1
  ELSE f.offset

\* b is the tree Back leaves for the frame f
RestoredFrom(t, f, b) ==
  /\ b.currentDir = f.dir
  /\ b.cursor = f.cursor
  /\ b.offset = RestoredOffset(f, visibleLines(t))

\* C29: Back with a history that is not empty restores the directory and
\* the cursor of the last frame, and its scroll offset too unless the
\* cursor lies outside the window that starts there, as it can once the
\* height of the window has changed since the frame was saved: then the
\* offset becomes the cursor when the cursor is above the window and the
\* cursor minus the visible lines plus one when it is below; with no
\* visible line the offset is left as saved.
C29_BackScroll ==
  model.tree.history # << >> =>
    /\ Back(model.tree).ok
    /\ RestoredFrom(model.tree, Last(model.tree.history), Back(model.tree).tree)

\* directory c was entered from the third line of the root while no line
\* was visible, and the window then grew to two lines: the saved cursor is
\* below the window that starts at the saved offset, and Back moves the
\* offset by one line
C29_Witness ==
  /\ Ready
  /\ visibleLines(model.tree) = 2
  /\ model.tree.history = << [dir |-> S0, cursor |-> 2, offset |-> 0] >>
  /\ Back(model.tree).tree.cursor = 2
  /\ Back(model.tree).tree.offset = 1

\* what the escape key does to m
Escaped(m) == Update(m, KeyMsg("esc"))

\* the step that returned r did nothing to m but hide the copy dialog
OnlyHidDialog(m, r) ==
  /\ ~r.quit
  /\ r.cmds = << >>
  /\ ~r.m.copyDialog.visible
  /\ [r.m EXCEPT !.copyDialog = m.copyDialog] = m

\* the step that returned r did nothing to m but hide the help
OnlyHidHelp(m, r) ==
  /\ ~r.quit
  /\ r.cmds = << >>
  /\ ~r.m.showHelp
  /\ [r.m EXCEPT !.showHelp = m.showHelp] = m

\* one, two or three escape keys in a row make m quit
QuitsWithinThree(m) ==
  \/ Escaped(m).quit
  \/ Escaped(Escaped(m).m).quit
  \/ Escaped(Escaped(Escaped(m).m).m).quit

\* C30: in Ready the escape key only hides the copy dialog when the dialog
\* is visible (no copy is started, the help stays as it was, no quit);
\* with the dialog hidden and the help shown it only hides the help; with
\* neither it quits. So escape never quits while the dialog or the help is
\* open, and at most three escape keys in a row reach quit.
C30_EscapePrecedence ==
  Ready =>
    /\ IF model.copyDialog.visible THEN OnlyHidDialog(model, Escaped(model))
       ELSE IF model.showHelp THEN OnlyHidHelp(model, Escaped(model))
       ELSE Escaped(model).quit
    /\ (model.copyDialog.visible \/ model.showHelp) => ~Escaped(model).quit
    /\ QuitsWithinThree(model)

\* the copy dialog is open over the help: the first escape hides the dialog
\* and leaves the help shown, the second hides the help, the third quits
C30_Witness ==
  /\ Ready
  /\ model.copyDialog.visible
  /\ model.showHelp
  /\ Escaped(model).m.showHelp
  /\ ~Escaped(model).m.copyDialog.visible
  /\ ~Escaped(Escaped(model).m).quit
  /\ Escaped(Escaped(Escaped(model).m).m).quit

====
